---------------------------- MODULE Spec2Model ----------------------------
(***************************************************************************)
(* A model of sanitise-fasta: the encode pipeline (FASTA parser,           *)
(* identifier generator, mapping store writes), the sequential decode      *)
(* pipeline (token scan, store lookups, line rewrite) and the worker-pool  *)
(* decode (dispatcher, workers, reassembler).                              *)
(*                                                                         *)
(* Two builds of the sequential program are modelled:                      *)
(*   prog = "A": src/sanitiser.go lines 1-230                              *)
(*   prog = "B": src/sanitiser/sanitiser.go lines 166-425                  *)
(* and the worker-pool build is src/sanitiser.go lines 232-491.            *)
(*                                                                         *)
(* Go strings are TLA+ strings; Len, SubSeq and \o act on them as on       *)
(* sequences of characters.                                                *)
(***************************************************************************)
EXTENDS Integers, Sequences, FiniteSets, TLC

VARIABLES
    \* ---- configuration of the run (flags of main)
    prog,            \* "A" | "B" | "pool": which build is running
    storeKind,       \* "sqlite_tx" | "sqlite_plain" | "badger"
    trimLength,      \* -trim
    csvMode,         \* -csv
    \* ---- the mapping store
    disk,            \* what is durable at the store location
    ms,              \* the MappingStore handle of the running process
    \* ---- the sequential encode / decode process
    run,             \* "encode" | "decode"
    fasta,           \* the input of the encode run (kept for later runs)
    input,           \* the lines the scanner of the current run yields
    pos,             \* index of the next line scanner.Scan() returns
    pc,              \* position of main / encodeMode / decodeMode
    firstLine,       \* encodeMode (B): firstLine
    currentHeader,   \* encodeMode: currentHeader
    currentSequence, \* encodeMode: currentSequence
    index,           \* encodeMode: index
    out,             \* the lines written to os.Stdout by the current run
    err,             \* the error the current run ended with ("" for nil)
    storeCalls,      \* the StorePair calls so far: <<newID, header, succeeded>>
    events,          \* the calls made so far and how each ended: <<name, ok>>
    outBroken,       \* writes to the stream behind os.Stdout fail in this run
    \* ---- the worker-pool decodeMode
    numWorkers,      \* runtime.NumCPU()
    jobs,            \* the jobs channel (buffered, capacity numWorkers)
    jobsClosed,      \* close(jobs) has run
    results,         \* the results channel (buffered, capacity numWorkers)
    resultsClosed,   \* close(results) has run
    dpc,             \* position of the dispatcher goroutine
    lineNum,         \* dispatcher: lineNum
    wpc,             \* position of each worker goroutine
    wjob,            \* the result each worker is about to send
    resultCache,     \* reassembler: resultCache
    nextLineToWrite, \* reassembler: nextLineToWrite
    jobsProcessed,   \* reassembler: jobsProcessed
    totalJobs,       \* reassembler: totalJobs
    mpc,             \* position of the main goroutine in decodeMode
    written          \* the sequence numbers of the lines written, in order

cfgVars   == <<prog, storeKind, trimLength, csvMode>>
storeVars == <<disk, ms>>
seqVars   == <<run, fasta, input, pos, pc, firstLine, currentHeader,
               currentSequence, index, out, err, storeCalls, events, outBroken>>
poolVars  == <<numWorkers, jobs, jobsClosed, results, resultsClosed, dpc,
               lineNum, wpc, wjob, resultCache, nextLineToWrite,
               jobsProcessed, totalJobs, mpc, written>>
vars      == <<cfgVars, storeVars, seqVars, poolVars>>

---------------------------------------------------------------------------
(* Bounds of the model.                                                    *)

\* longest FASTA input of an encode run, in lines
MaxLines == 3
\* longest text input of a decode run started on its own, in lines
MaxDecLines == 1
\* longest input of a worker-pool decode run, in lines
MaxPoolLines == 3
\* largest index processSequence is called with on its own
MaxIdIndex == 10

---------------------------------------------------------------------------
(* Strings: the functions of package strings, fmt and bufio the program    *)
(* uses.                                                                   *)

Char(s, i) == SubSeq(s, i, i)

\* strings.HasPrefix
HasPrefix(s, prefix) ==
    Len(s) >= Len(prefix) /\ SubSeq(s, 1, Len(prefix)) = prefix

\* s[from:] with from a 0-based byte offset
SliceFrom(s, from) == SubSeq(s, from + 1, Len(s))

\* unicode.IsSpace on the characters a scanned line can hold
IsSpace(c) == c \in {" ", "\t"}

RECURSIVE TrimLeft(_)
TrimLeft(s) ==
    IF Len(s) > 0 /\ IsSpace(Char(s, 1)) THEN TrimLeft(SliceFrom(s, 1)) ELSE s

RECURSIVE TrimRight(_)
TrimRight(s) ==
    IF Len(s) > 0 /\ IsSpace(Char(s, Len(s)))
    THEN TrimRight(SubSeq(s, 1, Len(s) - 1))
    ELSE s

\* strings.TrimSpace
TrimSpace(s) == TrimRight(TrimLeft(s))

\* strings.Index, 1-based, searching from position from; 0 when absent
RECURSIVE IndexFrom(_, _, _)
IndexFrom(s, sub, from) ==
    IF from + Len(sub) - 1 > Len(s) THEN 0
    ELSE IF SubSeq(s, from, from + Len(sub) - 1) = sub THEN from
    ELSE IndexFrom(s, sub, from + 1)

\* strings.Replace(s, old, new, n) for a non-empty old; n < 0 is no limit
RECURSIVE Replace(_, _, _, _)
Replace(s, old, new, n) ==
    LET i == IndexFrom(s, old, 1) IN
    IF n = 0 \/ i = 0 THEN s
    ELSE SubSeq(s, 1, i - 1) \o new
         \o Replace(SliceFrom(s, i + Len(old) - 1), old, new, n - 1)

\* strings.ReplaceAll
ReplaceAll(s, old, new) == Replace(s, old, new, -1)

\* fmt.Sprintf("%d", n) for n >= 0
RECURSIVE Itoa(_)
Itoa(n) ==
    LET d == Char("0123456789", (n % 10) + 1) IN
    IF n < 10 THEN d ELSE Itoa(n \div 10) \o d

\* the permutations of a finite set, as sequences: the orders in which a
\* range over a Go map can visit its keys
RECURSIVE Perms(_)
Perms(S) ==
    IF S = {} THEN {<<>>}
    ELSE UNION {{<<x>> \o p : p \in Perms(S \ {x})} : x \in S}

\* the sequences over S of length at most n
SeqUpTo(S, n) == UNION {[1..k -> S] : k \in 0..n}

---------------------------------------------------------------------------
(* Identifiers: idFormat and idRegexFormat.                                *)

\* the literal between the index and the digest in idFormat
Separator(p) == IF p = "pool" THEN "___" ELSE "_PW_"

IsDigit(c) == c \in {"0", "1", "2", "3", "4", "5", "6", "7", "8", "9"}
IsHexLower(c) == IsDigit(c) \/ c \in {"a", "b", "c", "d", "e", "f"}

\* the first position >= i of s holding no digit (Len(s)+1 when none)
RECURSIVE DigitsEnd(_, _)
DigitsEnd(s, i) ==
    IF i <= Len(s) /\ IsDigit(Char(s, i)) THEN DigitsEnd(s, i + 1) ELSE i

RECURSIVE HexEnd(_, _)
HexEnd(s, i) ==
    IF i <= Len(s) /\ IsHexLower(Char(s, i)) THEN HexEnd(s, i + 1) ELSE i

\* the end (inclusive) of the match of \d+<sep>[a-f0-9]+ that starts at
\* position i of s, 0 when there is none.  No digit is a separator
\* character and no separator character is a hex digit, so the greedy
\* match is the only one.
MatchEnd(sep, s, i) ==
    LET j == DigitsEnd(s, i)
        k == j + Len(sep)
    IN  IF j > i /\ k <= Len(s) /\ SubSeq(s, j, k - 1) = sep
           /\ IsHexLower(Char(s, k))
        THEN HexEnd(s, k) - 1
        ELSE 0

\* regexp.FindAllStringIndex(s, -1): the leftmost non-overlapping matches,
\* as <<start, end>> pairs (1-based, inclusive), searching from position i
RECURSIVE FindAllIndexFrom(_, _, _)
FindAllIndexFrom(sep, s, i) ==
    IF i > Len(s) THEN <<>>
    ELSE LET e == MatchEnd(sep, s, i) IN
         IF e = 0 THEN FindAllIndexFrom(sep, s, i + 1)
         ELSE <<(<<i, e>>)>> \o FindAllIndexFrom(sep, s, e + 1)

\* regexp.FindAllString(s, -1)
FindAllString(sep, s) ==
    LET ix == FindAllIndexFrom(sep, s, 1) IN
    [n \in 1..Len(ix) |-> SubSeq(s, ix[n][1], ix[n][2])]

\* hex.EncodeToString(sha1.Sum(data)), for the sequences the inputs of the
\* model can build (the values are the SHA-1 digests of these byte strings)
Sha1Hex(data) ==
    CASE data = "" -> "da39a3ee5e6b4b0d3255bfef95601890afd80709"
      [] data = "AC" -> "b1fb3bec6fdb22e19a94fe4c6c4481ccba2ee9f0"
      [] data = "#c" -> "7a3b05028d13217795aa23413ffa01f5095de3a5"
      [] data = ";c" -> "4fd3a7a43a032cbe9b3cf7444f12ab956cb26f77"
      [] data = "ACAC" -> "beb2379327a118c1c1dce79a56fb4896997e5fb8"
      [] data = "AC#c" -> "e1ff23d27fba915f76152b9074b2e748ddcf9fd8"
      [] data = "AC;c" -> "73fcf6640e04aaeec6d8cb0a985df67031cbec5a"
      [] data = "#cAC" -> "2d4b5f9ae3f7be097d999b3e3d441ceccfa37bf2"
      [] data = "#c#c" -> "c78109801760ab308b0ccf8636bd3a19c2270ae7"
      [] data = "#c;c" -> "a09085ef9773310def6ec8cbbdcf7ea43495ebe6"
      [] data = ";cAC" -> "8eb185102bbb0580cb443eb95792d9168ffe066c"
      [] data = ";c#c" -> "1d42c743139f732d9d57a0aad2038e099336fdbc"
      [] data = ";c;c" -> "2cefb0626e4e71c97ef684e89edbd19d020e0bb9"
      [] data = "ACACAC" -> "87e361f2e046d14e06e14b284fecb11454813e45"
      [] data = "ACAC#c" -> "e5c0d299bba088b3a1006252c31fd067c6226dfc"
      [] data = "ACAC;c" -> "dc128e9482769dd81b11e1b9a18bbcd65cf9b0df"
      [] data = "AC#cAC" -> "ec901a02516e64f6b6c574bda95dd0e14f5fc4c4"
      [] data = "AC#c#c" -> "d9fcfe9ceb8bf0c35c20e74b44cb9d219aee30e4"
      [] data = "AC#c;c" -> "8d43154a2b4e243c1e1743e6bf16223bcce518cc"
      [] data = "AC;cAC" -> "c2904cc205c83dadc40c4477ba0a98364389a278"
      [] data = "AC;c#c" -> "fecae32721a3ef0359a5ce227cd994aafa74a02d"
      [] data = "AC;c;c" -> "92054b0a5230664faa60fd6aa0eca4db3155b41f"
      [] data = "#cACAC" -> "962ef2ee6e7b156b73988c5a4b22658f21e99e8f"
      [] data = "#cAC#c" -> "51b48bdbcc6fd50f32c9ffb86fba205b700d9711"
      [] data = "#cAC;c" -> "47061930e002359adef677c7f9cb97b1ae5ea1c9"
      [] data = "#c#cAC" -> "5c3d8826fdd533d02b5d98adb0bdf9b314dafa89"
      [] data = "#c#c#c" -> "0aa3cd652fae91a30982d38ef80c4447117dd5d1"
      [] data = "#c#c;c" -> "44473c973bc72bbc2567465482fb3c95192a5994"
      [] data = "#c;cAC" -> "e3b66a879fd838bf26271708eaa2bfe7016e38d1"
      [] data = "#c;c#c" -> "668f98d192f875fdd103db209ad260412ce0afdb"
      [] data = "#c;c;c" -> "27e88ee4e0cfa091befb8d6ddd5471a32607a284"
      [] data = ";cACAC" -> "cb9b120bdc8b78b2356b27586524cb1bf0aee076"
      [] data = ";cAC#c" -> "fa54915d57896f2f88817a529ad4c6fa010d6ed0"
      [] data = ";cAC;c" -> "5c397ab9e12f5f6796874f742756a202a8cc6af8"
      [] data = ";c#cAC" -> "a061ad1c713628e03c9b754d8cae576a899ce497"
      [] data = ";c#c#c" -> "dfedf72daee1e1abeb57ca0ca11cefc94785db8a"
      [] data = ";c#c;c" -> "78dc89d0447f3d93a2be0f4645aaabc533c8194b"
      [] data = ";c;cAC" -> "fefdf1454e8434c5630cda21ca85d938972444f7"
      [] data = ";c;c#c" -> "4dc9071a3dd6adf7c6995f22216f9a2a5915a9ad"
      [] data = ";c;c;c" -> "6ae59c530c437f5cb686561f37d2eaa2ac9032bf"

\* an identifier that leaves the index of the record out of account
NewIDWithoutIndex(p, sequence, idx, trim) ==
    Itoa(1) \o Separator(p) \o SubSeq(Sha1Hex(sequence), 1, trim)

\* an identifier that carries the whole digest
NewIDUntrimmed(p, sequence, idx, trim) ==
    Itoa(idx + 1) \o Separator(p) \o Sha1Hex(sequence)

\* newID of processSequence: fmt.Sprintf(idFormat, index+1, trimmedHash)
\* with trimmedHash := hex.EncodeToString(hash[:])[:trimLength]
NewID(p, sequence, idx, trim) ==
    Itoa(idx + 1) \o Separator(p) \o SubSeq(Sha1Hex(sequence), 1, trim)

---------------------------------------------------------------------------
(* The mapping store.  disk is what is durable at the store location:     *)
(* whether a database exists there and the rows of each of its tables     *)
(* (a Badger directory is one table, "badger").  ms is the handle.        *)

EmptyMap == [k \in {} |-> ""]

Put(m, k, v) == [x \in DOMAIN m \cup {k} |-> IF x = k THEN v ELSE m[x]]

\* the rows of m added to those of base
Merge(base, m) ==
    [x \in DOMAIN base \cup DOMAIN m |-> IF x \in DOMAIN m THEN m[x] ELSE base[x]]

Restrict(m, S) == [x \in S |-> m[x]]

NoDisk == [exists |-> FALSE, tables |-> EmptyMap]

NoHandle ==
    [open |-> FALSE, readOnly |-> FALSE, stmt |-> FALSE, tx |-> FALSE,
     txDone |-> FALSE, pending |-> EmptyMap]

\* the table StorePair and LookupOriginalID of each store name
RowTable(kind) ==
    CASE kind = "sqlite_tx"    -> "mappings"
      [] kind = "sqlite_plain" -> "mapping"
      [] kind = "badger"       -> "badger"

\* openWriteDB: the store location after a write-mode open
OpenWriteDisk(kind, d) ==
    CASE kind = "sqlite_tx" ->
           \* DROP TABLE IF EXISTS mappings; CREATE TABLE mappings
           [exists |-> TRUE, tables |-> Put(d.tables, "mappings", EmptyMap)]
      [] kind = "sqlite_plain" ->
           \* CREATE TABLE IF NOT EXISTS mappings
           [exists |-> TRUE,
            tables |-> IF "mappings" \in DOMAIN d.tables THEN d.tables
                       ELSE Put(d.tables, "mappings", EmptyMap)]
      [] kind = "badger" ->
           \* badger.Open creates the directory when there is none
           [exists |-> TRUE,
            tables |-> IF "badger" \in DOMAIN d.tables THEN d.tables
                       ELSE Put(d.tables, "badger", EmptyMap)]

\* a NewMappingStore that opens for writing whatever readOnly says
NewMappingStoreForWriting(kind, readOnly, d) ==
    <<TRUE,
      [NoHandle EXCEPT !.open = TRUE,
                       !.stmt = (kind = "sqlite_tx"),
                       !.tx = (kind = "sqlite_tx")],
      OpenWriteDisk(kind, d)>>

\* NewMappingStore(location, readOnly): <<ok, handle, disk>>
NewMappingStore(kind, readOnly, d) ==
    IF readOnly
    THEN IF d.exists
         THEN <<TRUE, [NoHandle EXCEPT !.open = TRUE, !.readOnly = TRUE], d>>
         ELSE <<FALSE, NoHandle, d>>
    ELSE <<TRUE,
           [NoHandle EXCEPT !.open = TRUE,
                            !.stmt = (kind = "sqlite_tx"),
                            !.tx = (kind = "sqlite_tx")],
           OpenWriteDisk(kind, d)>>

\* a StorePair that writes the row whatever the mode of the store
StorePairInAnyMode(kind, h, d, newID, originalHeader) ==
    <<TRUE, h,
      [d EXCEPT !.tables = Put(@, RowTable(kind),
                               Put(d.tables[RowTable(kind)], newID, originalHeader))]>>

\* a StorePair whose INSERT replaces the row of a key that is there already
StorePairOverwrites(kind, h, d, newID, originalHeader) ==
    IF kind = "sqlite_tx" /\ h.stmt /\ h.open /\ ~h.txDone
    THEN <<TRUE, [h EXCEPT !.pending = Put(@, newID, originalHeader)], d>>
    ELSE StorePairInAnyMode(kind, h, d, newID, originalHeader)

\* MappingStore.StorePair(newID, originalHeader): <<ok, handle, disk>>
StorePair(kind, h, d, newID, originalHeader) ==
    LET t == RowTable(kind) IN
    CASE kind = "sqlite_tx" ->
           IF ~h.stmt THEN <<FALSE, h, d>>
           \* stmt.Exec on a closed statement or a finished transaction
           ELSE IF ~h.open \/ h.txDone THEN <<FALSE, h, d>>
           ELSE IF newID \in DOMAIN h.pending \cup DOMAIN d.tables[t]
           THEN <<FALSE, h, d>>
           ELSE <<TRUE, [h EXCEPT !.pending = Put(@, newID, originalHeader)], d>>
      [] kind = "sqlite_plain" ->
           \* INSERT INTO mapping: the table openWriteDB creates is mappings
           IF ~h.open \/ h.readOnly \/ t \notin DOMAIN d.tables THEN <<FALSE, h, d>>
           ELSE IF newID \in DOMAIN d.tables[t] THEN <<FALSE, h, d>>
           ELSE <<TRUE, h,
                  [d EXCEPT !.tables = Put(@, t, Put(d.tables[t], newID, originalHeader))]>>
      [] kind = "badger" ->
           \* txn.Set overwrites
           IF ~h.open \/ h.readOnly THEN <<FALSE, h, d>>
           ELSE <<TRUE, h,
                  [d EXCEPT !.tables = Put(@, t, Put(d.tables[t], newID, originalHeader))]>>

\* MappingStore.LookupOriginalID(processedID): <<ok, originalID>>
LookupOriginalID(kind, d, processedID) ==
    LET t == RowTable(kind) IN
    IF t \in DOMAIN d.tables /\ processedID \in DOMAIN d.tables[t]
    THEN <<TRUE, d.tables[t][processedID]>>
    ELSE <<FALSE, "">>

\* a Finalise that closes the transaction without committing its rows
FinaliseNoCommit(kind, h, d) ==
    <<TRUE, [h EXCEPT !.stmt = FALSE, !.tx = FALSE, !.pending = EmptyMap], d>>

\* a Finalise without the `ms.tx = nil` that follows the commit
FinaliseKeepsTx(kind, h, d) ==
    IF kind = "sqlite_tx" /\ h.tx
    THEN IF h.txDone
         THEN <<FALSE, [h EXCEPT !.stmt = FALSE], d>>
         ELSE <<TRUE,
                [h EXCEPT !.stmt = FALSE, !.txDone = TRUE, !.pending = EmptyMap],
                [d EXCEPT !.tables = Put(@, "mappings", Merge(d.tables["mappings"], h.pending))]>>
    ELSE <<TRUE, h, d>>

\* MappingStore.Finalise(): <<ok, handle, disk>>
Finalise(kind, h, d) ==
    IF kind = "sqlite_tx" /\ h.tx
    THEN IF h.txDone
         THEN \* stmt.Close(); tx.Commit() returns sql.ErrTxDone; tx.Rollback()
              <<FALSE, [h EXCEPT !.stmt = FALSE], d>>
         ELSE \* stmt.Close(); tx.Commit(); CREATE INDEX; ANALYZE
              <<TRUE,
                [h EXCEPT !.stmt = FALSE, !.tx = FALSE, !.pending = EmptyMap],
                [d EXCEPT !.tables = Put(@, "mappings", Merge(d.tables["mappings"], h.pending))]>>
    ELSE <<TRUE, h, d>>

\* what tx.Rollback() can leave of the rows of an open transaction: the
\* write-mode connection runs with PRAGMA journal_mode=OFF, under which
\* SQLite leaves the effect of ROLLBACK undefined
RollbackOutcomes(h, d) ==
    {[d EXCEPT !.tables = Put(@, "mappings",
                              Merge(d.tables["mappings"], Restrict(h.pending, S)))]
       : S \in SUBSET DOMAIN h.pending}

\* MappingStore.Close(): the store locations it can leave
CloseOutcomes(kind, h, d) ==
    IF kind = "sqlite_tx" /\ h.tx /\ ~h.txDone THEN RollbackOutcomes(h, d) ELSE {d}

\* a Close after which the transaction still counts as open
CloseHandleKeepsTx(h) == [h EXCEPT !.open = FALSE]

\* MappingStore.Close(): the handle it leaves.  stmt and tx keep their
\* values; the statement and the database are closed, the transaction is
\* over
CloseHandle(h) ==
    [h EXCEPT !.open = FALSE, !.txDone = h.tx, !.pending = EmptyMap]

\* MappingStore.Finalise() when tx.Commit() fails: tx.Rollback(), the error
\* returned, ms.tx left as it is.  <<handle, the store locations it can leave>>
FinaliseCommitFails(h, d) ==
    <<[h EXCEPT !.stmt = FALSE, !.txDone = TRUE, !.pending = EmptyMap],
      RollbackOutcomes(h, d)>>

---------------------------------------------------------------------------
(* decodeMode: the rewrite of one line.                                    *)

\* csvMode: originalID = `"` + strings.ReplaceAll(originalID, `"`, `""`) + `"`
CsvQuote(originalID) == "\"" \o ReplaceAll(originalID, "\"", "\"\"") \o "\""

\* the replacements map decodeMode builds from the matches of a line
Replacements(kind, d, csv, matches) ==
    LET found == {n \in 1..Len(matches) : LookupOriginalID(kind, d, matches[n])[1]}
        keys  == {matches[n] : n \in found}
    IN  [k \in keys |->
           LET originalID == LookupOriginalID(kind, d, k)[2] IN
           IF csv THEN CsvQuote(originalID) ELSE originalID]

\* for oldID, newID := range replacements { line = ReplaceAll(line, oldID, newID) }
\* with the keys visited in the given order
RECURSIVE ApplyReplacements(_, _, _)
ApplyReplacements(line, order, replacements) ==
    IF order = <<>> THEN line
    ELSE ApplyReplacements(ReplaceAll(line, Head(order), replacements[Head(order)]),
                           Tail(order), replacements)

\* the LookupOriginalID calls decodeMode (and worker) makes for line n of the
\* input, in order: one for each element of matches.
\* <<"LookupOriginalID", ok, processedID, n>>
LookupCalls(sep, kind, d, line, n) ==
    LET matches == FindAllString(sep, line) IN
    [i \in 1..Len(matches) |->
       <<"LookupOriginalID", LookupOriginalID(kind, d, matches[i])[1], matches[i], n>>]

\* the lines decodeMode (and worker) can write for an input line: one per
\* order in which the range over the replacements map visits its keys
RewriteLine(sep, kind, d, csv, line) ==
    LET replacements == Replacements(kind, d, csv, FindAllString(sep, line)) IN
    {ApplyReplacements(line, order, replacements) : order \in Perms(DOMAIN replacements)}

---------------------------------------------------------------------------
(* The inputs of the sequential runs.                                      *)

\* the lines a FASTA input is made of: headers (one with leading and
\* trailing blanks, one empty), a sequence line, a blank line, comments
EncLines == {">a", "> b ", ">", "AC", "", "#c", ";c"}

\* the lines of a text handed to decode on its own
DecLines ==
    {"11_PW_ab 1_PW_ab", "1_PW_ab,1_PW_ab", "1_PW_abc 1_PW_ab",
     "x 2_PW_cd;9_PW_ff", "plain text"}

\* the mappings of the stores such a decode run is started on
DecRows ==
    { ("1_PW_ab" :> "He said \"hi\"") @@ ("11_PW_ab" :> "k11") @@ ("2_PW_cd" :> "a,b"),
      ("1_PW_ab" :> "seq1"),
      EmptyMap }

\* the values of -trim the runs are started with: the ends of the valid
\* range and the values next to them
TrimLengths == {0, 1, 40, 41}

\* the builds of the encode program and the store each is built with
Builds == {<<"A", "sqlite_tx">>, <<"A", "sqlite_plain">>, <<"B", "badger">>}

---------------------------------------------------------------------------
(* The sequential encode and decode runs.                                  *)

PoolIdle ==
    /\ numWorkers = 0
    /\ jobs = <<>>
    /\ jobsClosed = FALSE
    /\ results = <<>>
    /\ resultsClosed = FALSE
    /\ dpc = "idle"
    /\ lineNum = 0
    /\ wpc = <<>>
    /\ wjob = <<>>
    /\ resultCache = <<>>
    /\ nextLineToWrite = 0
    /\ jobsProcessed = 0
    /\ totalJobs = 0
    /\ mpc = "idle"
    /\ written = <<>>

\* the local state of encodeMode / decodeMode before its first statement
FreshRun ==
    /\ pos = 1
    /\ firstLine = ""
    /\ currentHeader = ""
    /\ currentSequence = ""
    /\ index = 0
    /\ out = <<>>
    /\ err = ""
    /\ storeCalls = <<>>
    /\ events = <<>>

\* main is about to encode a FASTA input into a store location that holds
\* nothing
InitEncode ==
    /\ \E b \in Builds : prog = b[1] /\ storeKind = b[2]
    /\ trimLength \in TrimLengths
    /\ csvMode = FALSE
    /\ disk = NoDisk
    /\ ms = NoHandle
    /\ run = "encode"
    /\ fasta \in SeqUpTo(EncLines, MaxLines)
    /\ input = fasta
    /\ pc = "main"
    /\ outBroken \in BOOLEAN
    /\ FreshRun

\* main is about to decode a text with the store an earlier encode run left
InitDecode ==
    /\ prog = "A"
    /\ storeKind = "sqlite_tx"
    /\ trimLength \in {40, 41}
    /\ csvMode \in BOOLEAN
    /\ \E rows \in DecRows :
          disk = [exists |-> TRUE, tables |-> ("mappings" :> rows)]
    /\ ms = NoHandle
    /\ run = "decode"
    /\ fasta = <<>>
    /\ input \in SeqUpTo(DecLines, MaxDecLines)
    /\ pc = "main"
    /\ outBroken \in BOOLEAN
    /\ FreshRun

Init == (InitEncode \/ InitDecode) /\ PoolIdle

\* how a write to the buffered writer can end in this run: it fails only
\* when it makes the buffer pass its contents on to a stream that is broken
WriteResults == IF outBroken THEN BOOLEAN ELSE {TRUE}

\* a processSequence that goes on to the write when StorePair has failed
processSequenceWritesAnyway(p, kind, h, d, o, calls, ev, header, sequence, idx, trim, wok) ==
    LET newID == NewID(p, sequence, idx, trim)
        sp    == StorePair(kind, h, d, newID, header)
    IN  [ok |-> wok, ms |-> sp[2], disk |-> sp[3],
         out |-> IF wok THEN o \o <<">" \o newID, sequence>> ELSE o,
         storeCalls |-> Append(calls, <<newID, header, sp[1]>>),
         events |-> ev \o << <<"StorePair", sp[1]>>, <<"Fprintf", wok>> >>]

\* a processSequence that writes the record first and calls StorePair after
\* the write
processSequenceWritesFirst(p, kind, h, d, o, calls, ev, header, sequence, idx, trim, wok) ==
    LET newID == NewID(p, sequence, idx, trim)
        sp    == StorePair(kind, h, d, newID, header)
    IN  [ok |-> wok /\ sp[1], ms |-> sp[2], disk |-> sp[3],
         out |-> IF wok THEN o \o <<">" \o newID, sequence>> ELSE o,
         storeCalls |-> Append(calls, <<newID, header, sp[1]>>),
         events |-> ev \o << <<"Fprintf", wok>>, <<"StorePair", sp[1]>> >>]

\* processSequence(header, sequence, index, writer, trimLength, mappingStore):
\* StorePair, then the record written to the writer (wok: that write
\* succeeds)
processSequence(p, kind, h, d, o, calls, ev, header, sequence, idx, trim, wok) ==
    LET newID == NewID(p, sequence, idx, trim)
        sp    == StorePair(kind, h, d, newID, header)
    IN  [ok |-> sp[1] /\ wok, ms |-> sp[2], disk |-> sp[3],
         out |-> IF sp[1] /\ wok THEN o \o <<">" \o newID, sequence>> ELSE o,
         storeCalls |-> Append(calls, <<newID, header, sp[1]>>),
         events |-> IF sp[1]
                    THEN ev \o << <<"StorePair", TRUE>>, <<"Fprintf", wok>> >>
                    ELSE Append(ev, <<"StorePair", FALSE>>)]

\* a range check that lets every value pass
TrimAnything(t) == TRUE

\* main: the condition on -trim, *trimLength < 1 || *trimLength > 40 negated
TrimInRange(t) == ~(t < 1 \/ t > 40)

\* main: the range check of -trim
MainCheckTrim ==
    /\ pc = "main"
    /\ events' = Append(events, <<"trim check", TrimInRange(trimLength)>>)
    /\ IF ~TrimInRange(trimLength)
       THEN /\ err' = "trim value must be between 1 and 40"
            /\ pc' = "exited"
       ELSE /\ pc' = "open_input"
            /\ UNCHANGED err
    /\ UNCHANGED <<cfgVars, storeVars, run, fasta, input, pos, firstLine,
                   currentHeader, currentSequence, index, out, storeCalls,
                   outBroken, poolVars>>

\* main: os.Open(inputFile)
MainOpenInput ==
    /\ pc = "open_input"
    /\ \E ok \in BOOLEAN :
          /\ events' = Append(events, <<"os.Open", ok>>)
          /\ IF ok THEN pc' = "start" /\ UNCHANGED err
             ELSE pc' = "exited" /\ err' = "error opening input file"
    /\ UNCHANGED <<cfgVars, storeVars, run, fasta, input, pos, firstLine,
                   currentHeader, currentSequence, index, out, storeCalls,
                   outBroken, poolVars>>

\* main: NewMappingStore(*storeLocation, mode == "decode")
OpenStore ==
    /\ pc = "start"
    /\ LET r == NewMappingStore(storeKind, run = "decode", disk) IN
       /\ ms' = r[2]
       /\ disk' = r[3]
       /\ IF ~r[1] THEN pc' = "exited" /\ err' = "error creating mapping store"
          ELSE /\ err' = err
               /\ pc' = IF run = "decode" THEN "dec_loop"
                        ELSE IF prog = "B" THEN "enc_first" ELSE "enc_loop"
       /\ events' = Append(events, <<"NewMappingStore", r[1]>>)
    /\ UNCHANGED <<cfgVars, run, fasta, input, pos, firstLine, currentHeader,
                   currentSequence, index, out, storeCalls, outBroken, poolVars>>

\* encodeMode (B): one turn of the loop that looks for the first line that is
\* neither blank nor a comment
EncFirstLine ==
    /\ pc = "enc_first"
    /\ IF pos <= Len(input)
       THEN LET t == TrimSpace(input[pos]) IN
            /\ firstLine' = t
            /\ pos' = pos + 1
            /\ pc' = IF t # "" /\ ~HasPrefix(t, "#") /\ ~HasPrefix(t, ";")
                     THEN "enc_check" ELSE "enc_first"
       ELSE /\ pc' = "enc_check"
            /\ UNCHANGED <<firstLine, pos>>
    /\ UNCHANGED <<cfgVars, storeVars, run, fasta, input, currentHeader,
                   currentSequence, index, out, err, storeCalls, events,
                   outBroken, poolVars>>

\* encodeMode (B): the two checks of firstLine
EncCheckFirst ==
    /\ pc = "enc_check"
    /\ IF firstLine = ""
       THEN /\ err' = "error reading input: empty file or only blank/comment lines"
            /\ pc' = "enc_return"
            /\ UNCHANGED currentHeader
       ELSE IF ~HasPrefix(firstLine, ">")
       THEN /\ err' = "input is not a valid FASTA file"
            /\ pc' = "enc_return"
            /\ UNCHANGED currentHeader
       ELSE /\ currentHeader' = SliceFrom(firstLine, 1)
            /\ pc' = "enc_loop"
            /\ UNCHANGED err
    /\ UNCHANGED <<cfgVars, storeVars, run, fasta, input, pos, firstLine,
                   currentSequence, index, out, storeCalls, events, outBroken,
                   poolVars>>

\* encodeMode (B), line 312: the lines the main loop skips
SkipsLine(line, first) ==
    line = "" \/ HasPrefix(line, "#") \/ ~HasPrefix(first, ";")

\* encodeMode: one turn of the main loop
EncLine ==
    /\ pc = "enc_loop"
    /\ pos <= Len(input)
    /\ \E wok \in WriteResults :
       LET line == IF prog = "B" THEN TrimSpace(input[pos]) ELSE input[pos]
           r    == processSequence(prog, storeKind, ms, disk, out, storeCalls, events,
                                   currentHeader, currentSequence, index, trimLength, wok)
       IN
       IF prog = "B" /\ SkipsLine(line, firstLine)
       THEN /\ pos' = pos + 1
            /\ UNCHANGED <<storeVars, pc, currentHeader, currentSequence, index,
                           out, err, storeCalls, events>>
       ELSE IF ~HasPrefix(line, ">")
       THEN /\ currentSequence' = currentSequence \o line
            /\ pos' = pos + 1
            /\ UNCHANGED <<storeVars, pc, currentHeader, index, out, err,
                           storeCalls, events>>
       ELSE IF currentHeader = ""
       THEN /\ currentHeader' = SliceFrom(line, 1)
            /\ currentSequence' = ""
            /\ pos' = pos + 1
            /\ UNCHANGED <<storeVars, pc, index, out, err, storeCalls, events>>
       ELSE IF r.ok
       THEN /\ ms' = r.ms /\ disk' = r.disk /\ out' = r.out
            /\ storeCalls' = r.storeCalls
            /\ events' = r.events
            /\ index' = index + 1
            /\ currentHeader' = SliceFrom(line, 1)
            /\ currentSequence' = ""
            /\ pos' = pos + 1
            /\ UNCHANGED <<pc, err>>
       ELSE /\ ms' = r.ms /\ disk' = r.disk
            /\ storeCalls' = r.storeCalls
            /\ events' = r.events
            /\ err' = "error processing sequence"
            /\ pc' = "enc_return"
            /\ UNCHANGED <<pos, currentHeader, currentSequence, index, out>>
    /\ UNCHANGED <<cfgVars, run, fasta, input, firstLine, outBroken, poolVars>>

\* encodeMode: after the loop, the record in progress; then Finalise (A) or
\* the return (B)
EncEnd ==
    /\ pc = "enc_loop"
    /\ pos > Len(input)
    /\ \E wok \in WriteResults :
       LET r == processSequence(prog, storeKind, ms, disk, out, storeCalls, events,
                                currentHeader, currentSequence, index, trimLength, wok)
       IN
       IF currentHeader = ""
       THEN /\ pc' = IF prog = "A" THEN "enc_finalise" ELSE "enc_return"
            /\ UNCHANGED <<storeVars, out, err, storeCalls, events>>
       ELSE IF r.ok
       THEN /\ ms' = r.ms /\ disk' = r.disk /\ out' = r.out
            /\ storeCalls' = r.storeCalls
            /\ events' = r.events
            /\ pc' = IF prog = "A" THEN "enc_finalise" ELSE "enc_return"
            /\ UNCHANGED err
       ELSE /\ ms' = r.ms /\ disk' = r.disk
            /\ storeCalls' = r.storeCalls
            /\ events' = r.events
            /\ err' = "error processing sequence"
            /\ pc' = "enc_return"
            /\ UNCHANGED out
    /\ UNCHANGED <<cfgVars, run, fasta, input, pos, firstLine, currentHeader,
                   currentSequence, index, outBroken, poolVars>>

\* how mappingStore.Finalise() can end: as Finalise does when every
\* statement succeeds, and with the error of a tx.Commit() that fails
FinaliseOutcomes(kind, h, d) ==
    {Finalise(kind, h, d)}
    \cup (IF kind = "sqlite_tx" /\ h.tx /\ ~h.txDone
          THEN {<<FALSE, FinaliseCommitFails(h, d)[1], dd>> :
                  dd \in FinaliseCommitFails(h, d)[2]}
          ELSE {})

\* writer.Flush(): it fails when a write has failed before or when it has
\* something to pass on to a broken stream
FlushResult(o, ev) ==
    ~outBroken
    \/ (o = <<>> /\ \A n \in 1..Len(ev) : ev[n][2] \/ ev[n][1] \notin {"Fprintf", "Fprintln"})

\* encodeMode (A): mappingStore.Finalise() and the return
EncFinalise ==
    /\ pc = "enc_finalise"
    /\ \E r \in FinaliseOutcomes(storeKind, ms, disk) :
       /\ ms' = r[2]
       /\ disk' = r[3]
       /\ err' = IF r[1] THEN "" ELSE "error finalizing database"
       /\ events' = Append(events, <<"Finalise", r[1]>>)
    /\ pc' = "enc_return"
    /\ UNCHANGED <<cfgVars, run, fasta, input, pos, firstLine, currentHeader,
                   currentSequence, index, out, storeCalls, outBroken, poolVars>>

\* encodeMode returns and its deferred writer.Flush() runs; then main.
\* A: os.Exit(1) on an error, which skips the deferred Close; the deferred
\* Close otherwise.  B: Close, then the exit.
MainAfterEncode ==
    /\ pc = "enc_return"
    /\ disk' \in CloseOutcomes(storeKind, ms, disk)
    /\ LET flushed == Append(events, <<"Flush", FlushResult(out, events)>>) IN
       IF prog = "A" /\ err # ""
       THEN ms' = ms /\ events' = flushed
       ELSE ms' = CloseHandle(ms) /\ events' = Append(flushed, <<"Close", TRUE>>)
    /\ pc' = "exited"
    /\ UNCHANGED <<cfgVars, run, fasta, input, pos, firstLine, currentHeader,
                   currentSequence, index, out, err, storeCalls, outBroken,
                   poolVars>>

\* a later run of the program: decode, on the output of the encode run that
\* has succeeded and whose output has reached its stream, with the same
\* store location
StartDecode ==
    /\ pc = "exited"
    /\ run = "encode"
    /\ err = ""
    /\ ~outBroken
    /\ run' = "decode"
    /\ csvMode' \in BOOLEAN
    /\ outBroken' \in BOOLEAN
    /\ input' = out
    /\ pos' = 1
    /\ out' = <<>>
    /\ events' = <<>>
    /\ ms' = NoHandle
    /\ pc' = "main"
    /\ UNCHANGED <<prog, storeKind, trimLength, disk, fasta, firstLine,
                   currentHeader, currentSequence, index, err, storeCalls, poolVars>>

\* decodeMode: one turn of the loop; when fmt.Fprintln fails, the return
\* with the error and the deferred writer.Flush()
DecLine ==
    /\ pc = "dec_loop"
    /\ pos <= Len(input)
    /\ \E wok \in WriteResults :
       IF wok
       THEN /\ \E line \in RewriteLine(Separator(prog), storeKind, disk, csvMode, input[pos]) :
                  out' = Append(out, line)
            /\ events' = Append(events \o LookupCalls(Separator(prog), storeKind, disk,
                                                      input[pos], pos),
                                <<"Fprintln", TRUE>>)
            /\ pos' = pos + 1
            /\ UNCHANGED <<pc, err>>
       ELSE /\ events' = events
                         \o LookupCalls(Separator(prog), storeKind, disk, input[pos], pos)
                         \o << <<"Fprintln", FALSE>>, <<"Flush", FALSE>> >>
            /\ err' = "error writing output"
            /\ pc' = "dec_return"
            /\ UNCHANGED <<out, pos>>
    /\ UNCHANGED <<cfgVars, storeVars, run, fasta, input, firstLine,
                   currentHeader, currentSequence, index, storeCalls, outBroken,
                   poolVars>>

\* decodeMode: the end of the input, the return of nil and the deferred
\* writer.Flush(), whose result is dropped
DecEnd ==
    /\ pc = "dec_loop"
    /\ pos > Len(input)
    /\ events' = Append(events, <<"Flush", FlushResult(out, events)>>)
    /\ pc' = "dec_return"
    /\ UNCHANGED <<cfgVars, storeVars, run, fasta, input, pos, firstLine,
                   currentHeader, currentSequence, index, out, err, storeCalls,
                   outBroken, poolVars>>

\* main after decodeMode has returned: os.Exit(1) on an error, which skips
\* the deferred Close; the deferred Close otherwise
MainAfterDecode ==
    /\ pc = "dec_return"
    /\ IF err # ""
       THEN UNCHANGED <<storeVars, events>>
       ELSE /\ disk' \in CloseOutcomes(storeKind, ms, disk)
            /\ ms' = CloseHandle(ms)
            /\ events' = Append(events, <<"Close", TRUE>>)
    /\ pc' = "exited"
    /\ UNCHANGED <<cfgVars, run, fasta, input, pos, firstLine, currentHeader,
                   currentSequence, index, out, err, storeCalls, outBroken,
                   poolVars>>

Next ==
    \/ MainCheckTrim
    \/ MainOpenInput
    \/ OpenStore
    \/ EncFirstLine
    \/ EncCheckFirst
    \/ EncLine
    \/ EncEnd
    \/ EncFinalise
    \/ MainAfterEncode
    \/ StartDecode
    \/ DecLine
    \/ DecEnd
    \/ MainAfterDecode

Spec == Init /\ [][Next]_vars

---------------------------------------------------------------------------
(* Properties of the sequential runs.                                      *)

\* a blank line or a line beginning with # or ;
IsBlankOrComment(l) ==
    LET t == TrimSpace(l) IN t = "" \/ HasPrefix(t, "#") \/ HasPrefix(t, ";")

Significant(lines) == SelectSeq(lines, LAMBDA l : ~IsBlankOrComment(l))

IsHeaderLine(l) == HasPrefix(l, ">")

HeaderLines(lines) == SelectSeq(lines, IsHeaderLine)

\* the first significant line begins with >
ValidFasta(lines) ==
    Significant(lines) # <<>> /\ IsHeaderLine(Head(Significant(lines)))

\* the positions of the header lines
HeaderPositions(lines) ==
    SelectSeq([i \in 1..Len(lines) |-> i], LAMBDA i : IsHeaderLine(lines[i]))

RECURSIVE ConcatRange(_, _, _)
ConcatRange(lines, a, b) ==
    IF a > b THEN "" ELSE lines[a] \o ConcatRange(lines, a + 1, b)

\* the lines between header k and header k+1 (or the end), concatenated
SequenceOf(lines, k) ==
    LET hp == HeaderPositions(lines) IN
    ConcatRange(lines, hp[k] + 1,
                IF k < Len(hp) THEN hp[k + 1] - 1 ELSE Len(lines))

EncodeDone == run = "encode" /\ pc = "exited"

DecodeDone == run = "decode" /\ pc = "exited"

\* the value that takes the place of a matched token: the stored header
\* (quoted in csv mode) when the store has the token, the token when not
SpanValue(kind, d, csv, tok) ==
    LET r == LookupOriginalID(kind, d, tok) IN
    IF ~r[1] THEN tok
    ELSE IF csv THEN "\"" \o ReplaceAll(r[2], "\"", "\"\"") \o "\""
    ELSE r[2]

\* by how much the first i matched spans of a line, each replaced by its
\* value, move what follows them
RECURSIVE Shift(_, _, _, _, _, _)
Shift(sep, kind, d, csv, line, i) ==
    IF i = 0 THEN 0
    ELSE LET tok == FindAllString(sep, line)[i] IN
         Shift(sep, kind, d, csv, line, i - 1)
           + Len(SpanValue(kind, d, csv, tok)) - Len(tok)

\* s stands at position start of o
HasAt(o, start, s) ==
    start + Len(s) - 1 <= Len(o) /\ SubSeq(o, start, start + Len(s) - 1) = s

\* the i-th matched span of input line n shows as s in output line n, at the
\* place the span has once the spans before it are replaced
SpanShowsAs(n, i, s) ==
    LET sep  == Separator(prog)
        line == input[n]
        ix   == FindAllIndexFrom(sep, line, 1)
    IN  HasAt(out[n], ix[i][1] + Shift(sep, storeKind, disk, csvMode, line, i - 1), s)

\* C3: encoding a valid FASTA input into a fresh store and decoding the
\* encode output with that store, csv mode off, gives back the header lines
\* of the input byte for byte, when no header holds an identifier-shaped
\* substring.
RoundTripRestoresHeaders ==
    (/\ DecodeDone
     /\ err = ""
     /\ ~csvMode
     /\ ValidFasta(fasta)
     /\ \A n \in 1..Len(fasta) :
           IsHeaderLine(fasta[n]) => FindAllString(Separator(prog), fasta[n]) = <<>>)
    => HeaderLines(out) = HeaderLines(fasta)

\* C5: in decodeMode a matched token the store does not have stands
\* unchanged at its place in the output line, also next to tokens of the
\* same line that the store has; the line is written and every line of the
\* input gets its output line.
MissedTokenIsKept ==
    run = "decode" =>
      /\ \A n \in 1..Len(out) :
            LET toks == FindAllString(Separator(prog), input[n]) IN
            \A i \in 1..Len(toks) :
               ~LookupOriginalID(storeKind, disk, toks[i])[1]
                  => SpanShowsAs(n, i, toks[i])
      /\ (pc = "exited" /\ err = "" => Len(out) = Len(input))

\* C6: encodeMode on an input with n header lines, none with an empty
\* header, writes n records in input order: record k is > and the identifier
\* with index k, then one line, the concatenation of the lines between
\* header k and header k+1 (or the end).
EncodeWritesEveryRecord ==
    (/\ EncodeDone
     /\ err = ""
     /\ \A n \in 1..Len(fasta) : IsHeaderLine(fasta[n]) => Len(fasta[n]) > 1)
    => LET n == Len(HeaderPositions(fasta)) IN
       /\ Len(out) = 2 * n
       /\ \A k \in 1..n :
             /\ out[2 * k - 1] =
                  ">" \o NewID(prog, SequenceOf(fasta, k), k - 1, trimLength)
             /\ out[2 * k] = SequenceOf(fasta, k)

\* every row of every table at the store location
AllRows(d) ==
    UNION {{<<t, k, d.tables[t][k]>> : k \in DOMAIN d.tables[t]} : t \in DOMAIN d.tables}

\* the header lines encodeMode (A) makes records of
RecordHeaderLines(lines) ==
    SelectSeq(lines, LAMBDA l : IsHeaderLine(l) /\ Len(l) > 1)

RejectsInputNotStartingWithHeader ==
    (/\ run = "encode"
     /\ Significant(fasta) # <<>>
     /\ ~IsHeaderLine(Head(Significant(fasta))))
    => /\ out = <<>>
       /\ storeCalls = <<>>
       /\ (pc \in {"enc_return", "exited"} => err # "")

\* C9: on an input of blank and comment lines only, and on the empty input,
\* encodeMode writes nothing and ends with an error.
RejectsInputWithoutHeader ==
    (run = "encode" /\ \A n \in 1..Len(fasta) : IsBlankOrComment(fasta[n]))
    => /\ out = <<>>
       /\ (pc \in {"enc_return", "exited"} => err # "")

\* C10: in decodeMode every token the store has is replaced by its stored
\* header, in csv mode with each double quote doubled and one pair of double
\* quotes around it, with csv mode off unchanged: on a line all of whose
\* tokens the store has, each token's place shows that value.
FoundTokenShowsStoredHeader ==
    run = "decode" =>
      \A n \in 1..Len(out) :
         LET toks == FindAllString(Separator(prog), input[n]) IN
         (\A i \in 1..Len(toks) : LookupOriginalID(storeKind, disk, toks[i])[1])
            => \A i \in 1..Len(toks) :
                  SpanShowsAs(n, i, SpanValue(storeKind, disk, csvMode, toks[i]))

---------------------------------------------------------------------------
(* The worker-pool decodeMode: a dispatcher goroutine, numWorkers worker   *)
(* goroutines and the main goroutine, which reassembles the results.       *)
(* input is what the scanner yields, out what is written to the writer.    *)

\* the lines of a text handed to the worker-pool decode
PoolLines == {"1___ab", "x 7___ff", "11___ab 1___ab"}

\* the mappings of the store it runs on
PoolRows == ("1___ab" :> "seqA") @@ ("11___ab" :> "seqK")

\* what runtime.NumCPU() returns on the machines considered
WorkerCounts == {1, 2}

Workers == 1..numWorkers

Max(a, b) == IF a >= b THEN a ELSE b

\* decodeMode has made the channels and started the goroutines
InitPool ==
    /\ prog = "pool"
    /\ storeKind = "sqlite_tx"
    /\ trimLength = 40
    /\ csvMode = FALSE
    /\ disk = [exists |-> TRUE, tables |-> ("mappings" :> PoolRows)]
    /\ ms = [NoHandle EXCEPT !.open = TRUE, !.readOnly = TRUE]
    /\ run = "decode"
    /\ fasta = <<>>
    /\ input \in SeqUpTo(PoolLines, MaxPoolLines)
    /\ pc = "pool"
    /\ outBroken \in BOOLEAN
    /\ FreshRun
    /\ numWorkers \in WorkerCounts
    /\ jobs = <<>>
    /\ jobsClosed = FALSE
    /\ results = <<>>
    /\ resultsClosed = FALSE
    /\ dpc = "scan"
    /\ lineNum = 0
    /\ wpc = [w \in Workers |-> "recv"]
    /\ wjob = [w \in Workers |-> [lineNum |-> 0, line |-> ""]]
    /\ resultCache = EmptyMap
    /\ nextLineToWrite = 0
    /\ jobsProcessed = 0
    /\ totalJobs = 0
    /\ mpc = "recv"
    /\ written = <<>>

\* the process is alive: it has neither exited nor died of a panic
Alive == mpc \notin {"exited", "panicked"}

\* dispatcher: scanner.Scan() and jobs <- job{lineNum, scanner.Text()}
Dispatch ==
    /\ Alive
    /\ dpc = "scan"
    /\ lineNum < Len(input)
    /\ Len(jobs) < numWorkers
    /\ jobs' = Append(jobs, [lineNum |-> lineNum, line |-> input[lineNum + 1]])
    /\ lineNum' = lineNum + 1
    /\ UNCHANGED <<cfgVars, storeVars, seqVars, numWorkers, jobsClosed, results,
                   resultsClosed, dpc, wpc, wjob, resultCache, nextLineToWrite,
                   jobsProcessed, totalJobs, mpc, written>>

\* dispatcher: close(jobs) after the last line
DispatchClose ==
    /\ Alive
    /\ dpc = "scan"
    /\ lineNum = Len(input)
    /\ jobsClosed' = TRUE
    /\ dpc' = "done"
    /\ UNCHANGED <<cfgVars, storeVars, seqVars, numWorkers, jobs, results,
                   resultsClosed, lineNum, wpc, wjob, resultCache,
                   nextLineToWrite, jobsProcessed, totalJobs, mpc, written>>

\* worker: j := <-jobs, the lookups and the replacements
WorkerTake(w) ==
    /\ Alive
    /\ wpc[w] = "recv"
    /\ jobs # <<>>
    /\ jobs' = Tail(jobs)
    /\ \E line \in RewriteLine(Separator(prog), storeKind, disk, FALSE, Head(jobs).line) :
          wjob' = [wjob EXCEPT ![w] = [lineNum |-> Head(jobs).lineNum, line |-> line]]
    /\ wpc' = [wpc EXCEPT ![w] = "send"]
    /\ UNCHANGED <<cfgVars, storeVars, seqVars, numWorkers, jobsClosed, results,
                   resultsClosed, dpc, lineNum, resultCache, nextLineToWrite,
                   jobsProcessed, totalJobs, mpc, written>>

\* worker: the range over jobs ends, the channel is closed and drained
WorkerExit(w) ==
    /\ Alive
    /\ wpc[w] = "recv"
    /\ jobs = <<>>
    /\ jobsClosed
    /\ wpc' = [wpc EXCEPT ![w] = "done"]
    /\ UNCHANGED <<cfgVars, storeVars, seqVars, numWorkers, jobs, jobsClosed,
                   results, resultsClosed, dpc, lineNum, wjob, resultCache,
                   nextLineToWrite, jobsProcessed, totalJobs, mpc, written>>

\* worker: results <- result{lineNum, line}
WorkerSend(w) ==
    /\ Alive
    /\ wpc[w] = "send"
    /\ ~resultsClosed
    /\ Len(results) < numWorkers
    /\ results' = Append(results, wjob[w])
    /\ wpc' = [wpc EXCEPT ![w] = "recv"]
    /\ UNCHANGED <<cfgVars, storeVars, seqVars, numWorkers, jobs, jobsClosed,
                   resultsClosed, dpc, lineNum, wjob, resultCache,
                   nextLineToWrite, jobsProcessed, totalJobs, mpc, written>>

\* worker: a send on the closed results channel panics and the process dies
WorkerPanic(w) ==
    /\ Alive
    /\ wpc[w] = "send"
    /\ resultsClosed
    /\ mpc' = "panicked"
    /\ UNCHANGED <<cfgVars, storeVars, seqVars, numWorkers, jobs, jobsClosed,
                   results, resultsClosed, dpc, lineNum, wpc, wjob, resultCache,
                   nextLineToWrite, jobsProcessed, totalJobs, written>>

\* a reassembler that writes what it holds in the order it was received
DrainUnordered(cache, next, o, wr) ==
    IF DOMAIN cache = {}
    THEN [resultCache |-> cache, nextLineToWrite |-> next, out |-> o, written |-> wr]
    ELSE LET k == CHOOSE x \in DOMAIN cache : TRUE IN
         [resultCache |-> EmptyMap, nextLineToWrite |-> next + 1,
          out |-> Append(o, cache[k]), written |-> Append(wr, k)]

\* a reassembler whose inner loop makes one turn
DrainOneLine(cache, next, o, wr) ==
    IF next \in DOMAIN cache
    THEN [resultCache |-> Restrict(cache, DOMAIN cache \ {next}),
          nextLineToWrite |-> next + 1,
          out |-> Append(o, cache[next]), written |-> Append(wr, next)]
    ELSE [resultCache |-> cache, nextLineToWrite |-> next, out |-> o, written |-> wr]

\* reassembler: the inner loop, which writes resultCache[nextLineToWrite]
\* and deletes it for as long as there is one
RECURSIVE Drain(_, _, _, _)
Drain(cache, next, o, wr) ==
    IF next \in DOMAIN cache
    THEN Drain(Restrict(cache, DOMAIN cache \ {next}), next + 1,
               Append(o, cache[next]), Append(wr, next))
    ELSE [resultCache |-> cache, nextLineToWrite |-> next, out |-> o, written |-> wr]

\* reassembler: one turn of the loop over results
MainReceive ==
    /\ mpc = "recv"
    /\ results # <<>>
    /\ LET res == Head(results)
           tot == Max(totalJobs, res.lineNum + 1)
           d   == Drain(Put(resultCache, res.lineNum, res.line),
                        nextLineToWrite, out, written)
       IN
       /\ results' = Tail(results)
       /\ jobsProcessed' = jobsProcessed + 1
       /\ totalJobs' = tot
       /\ resultCache' = d.resultCache
       /\ nextLineToWrite' = d.nextLineToWrite
       /\ out' = d.out
       /\ written' = d.written
       /\ mpc' = IF jobsProcessed + 1 = tot THEN "after" ELSE "recv"
    /\ UNCHANGED <<cfgVars, storeVars, run, fasta, input, pos, pc, firstLine,
                   currentHeader, currentSequence, index, err, storeCalls,
                   events, outBroken,
                   numWorkers, jobs, jobsClosed, resultsClosed, dpc, lineNum,
                   wpc, wjob>>

\* reassembler: a turn of the loop in which fmt.Fprintln fails on the first
\* line it writes: the message on os.Stderr and os.Exit(1)
MainWriteFails ==
    /\ mpc = "recv"
    /\ results # <<>>
    /\ outBroken
    /\ LET res == Head(results) IN
       /\ nextLineToWrite \in DOMAIN Put(resultCache, res.lineNum, res.line)
       /\ results' = Tail(results)
       /\ jobsProcessed' = jobsProcessed + 1
       /\ totalJobs' = Max(totalJobs, res.lineNum + 1)
       /\ resultCache' = Put(resultCache, res.lineNum, res.line)
    /\ err' = "Error writing output"
    /\ mpc' = "exited"
    /\ UNCHANGED <<cfgVars, storeVars, run, fasta, input, pos, pc, firstLine,
                   currentHeader, currentSequence, index, out, storeCalls,
                   events, outBroken,
                   numWorkers, jobs, jobsClosed, resultsClosed, dpc, lineNum,
                   wpc, wjob, nextLineToWrite, written>>

\* decodeMode after the loop: scanner.Err(), close(results), the return
MainCloseResults ==
    /\ mpc = "after"
    /\ resultsClosed' = TRUE
    /\ mpc' = "returned"
    /\ UNCHANGED <<cfgVars, storeVars, seqVars, numWorkers, jobs, jobsClosed,
                   results, dpc, lineNum, wpc, wjob, resultCache,
                   nextLineToWrite, jobsProcessed, totalJobs, written>>

\* main returns: the deferred mappingStore.Close() and the end of the process
MainExit ==
    /\ mpc = "returned"
    /\ mpc' = "exited"
    /\ ms' = NoHandle
    /\ UNCHANGED <<cfgVars, disk, seqVars, numWorkers, jobs, jobsClosed, results,
                   resultsClosed, dpc, lineNum, wpc, wjob, resultCache,
                   nextLineToWrite, jobsProcessed, totalJobs, written>>

PoolNext ==
    \/ Dispatch
    \/ DispatchClose
    \/ \E w \in Workers : WorkerTake(w)
    \/ \E w \in Workers : WorkerExit(w)
    \/ \E w \in Workers : WorkerSend(w)
    \/ \E w \in Workers : WorkerPanic(w)
    \/ MainReceive
    \/ MainWriteFails
    \/ MainCloseResults
    \/ MainExit

PoolSpec == InitPool /\ [][PoolNext]_vars

\* C1: in the worker-pool decodeMode the k-th line written (k from 0) is a
\* rewritten form of input line k: the lines are written in ascending
\* sequence number, with no gap, no duplicate and no swap.
PoolWritesInOrder ==
    /\ Len(out) = Len(written)
    /\ Len(out) <= Len(input)
    /\ \A k \in 1..Len(out) :
          /\ written[k] = k - 1
          /\ out[k] \in RewriteLine(Separator(prog), storeKind, disk, FALSE, input[k])

\* C1 witness: three lines, the first two different, were given to two
\* workers and all three are written
PoolWroteThreeLines ==
    /\ numWorkers = 2
    /\ Len(input) = 3
    /\ input[1] # input[2]
    /\ Len(out) = 3

\* C2: when the worker-pool decodeMode has returned, it has written as many
\* lines as the input has.
PoolWritesEveryLine ==
    (mpc \in {"returned", "exited"} /\ err = "") => Len(out) = Len(input)

\* C4: the worker-pool decodeMode returns on every finite input, the empty
\* input too: the main goroutine is never left waiting on an empty results
\* channel when the dispatcher and every worker have finished, for then
\* nothing is left that could send to it or close it.
PoolDecodeReturns ==
    ~ ( /\ mpc = "recv"
        /\ results = <<>>
        /\ dpc = "done"
        /\ \A w \in Workers : wpc[w] = "done" )

---------------------------------------------------------------------------
(* Properties of the identifiers, of main and of the calls a run makes.    *)

\* C11: within one encode run the identifiers passed to StorePair are
\* pairwise distinct, and the k-th record written carries index k, also
\* when records have the same sequence and so the same digest.
IdentifiersAreDistinct ==
    run = "encode" =>
      /\ \A i, j \in 1..Len(storeCalls) :
            i # j => storeCalls[i][1] # storeCalls[j][1]
      /\ \A k \in 1..Len(storeCalls) :
            HasPrefix(storeCalls[k][1], Itoa(k) \o Separator(prog))
      /\ \A k \in 1..(Len(out) \div 2) :
            HasPrefix(out[2 * k - 1], ">" \o Itoa(k) \o Separator(prog))

\* C11 witness: an encode run has written three records with the same
\* sequence
ThreeRecordsWithOneDigest ==
    /\ run = "encode" /\ prog = "A"
    /\ Len(out) = 6
    /\ out[2] = out[4] /\ out[4] = out[6]
    /\ Len(storeCalls) = 3

---------------------------------------------------------------------------
(* processSequence on its own: one call, for every valid -trim, on a store *)
(* just opened for writing.                                                *)

\* the sequences it is called with
IdSequences == {"", "AC", "ACAC", "AC#c", ";c#cAC"}

InitId ==
    /\ prog \in {"A", "pool"}
    /\ storeKind = "sqlite_tx"
    /\ trimLength \in 1..40
    /\ csvMode = FALSE
    /\ ms = NewMappingStore(storeKind, FALSE, NoDisk)[2]
    /\ disk = NewMappingStore(storeKind, FALSE, NoDisk)[3]
    /\ run = "encode"
    /\ fasta = <<>>
    /\ input = <<>>
    /\ pos = 1
    /\ pc = "id"
    /\ firstLine = ""
    /\ currentHeader = "a"
    /\ currentSequence \in IdSequences
    /\ index \in 0..MaxIdIndex
    /\ out = <<>>
    /\ err = ""
    /\ storeCalls = <<>>
    /\ events = <<>>
    /\ outBroken = FALSE
    /\ PoolIdle

\* processSequence(currentHeader, currentSequence, index, ...)
CallProcessSequence ==
    /\ pc = "id"
    /\ LET r == processSequence(prog, storeKind, ms, disk, out, storeCalls, events,
                                currentHeader, currentSequence, index, trimLength, TRUE)
       IN /\ ms' = r.ms /\ disk' = r.disk /\ out' = r.out
          /\ storeCalls' = r.storeCalls
          /\ events' = r.events
    /\ pc' = "id_done"
    /\ UNCHANGED <<cfgVars, run, fasta, input, pos, firstLine, currentHeader,
                   currentSequence, index, err, outBroken, poolVars>>

IdNext == CallProcessSequence

IdSpec == InitId /\ [][IdNext]_vars

\* what follows the separator in an identifier
DigestPart(p, id) ==
    SliceFrom(id, IndexFrom(id, Separator(p), 1) + Len(Separator(p)) - 1)

\* C12: for every trimLength t in 1..40 and every sequence, the digest part
\* of the identifier processSequence builds has t characters, all of them in
\* 0-9a-f, and is the first t characters of the 40 characters of the
\* hexadecimal SHA-1 digest of the sequence.
DigestHasTrimLength ==
    pc = "id_done" =>
      LET id     == storeCalls[1][1]
          digest == DigestPart(prog, id)
      IN  /\ out = <<">" \o id, currentSequence>>
          /\ HasPrefix(id, Itoa(index + 1) \o Separator(prog))
          /\ Len(digest) = trimLength
          /\ \A n \in 1..Len(digest) : IsHexLower(Char(digest, n))
          /\ Len(Sha1Hex(currentSequence)) = 40
          /\ digest = SubSeq(Sha1Hex(currentSequence), 1, trimLength)

\* C12 witness: the identifier of the third record, of sequence AC, with
\* -trim 7
SevenCharacterDigest ==
    /\ pc = "id_done"
    /\ trimLength = 7
    /\ out = <<">3_PW_b1fb3be", "AC">>

---------------------------------------------------------------------------
(* Properties of main and of the calls a run makes.                        *)

\* the calls of the given name among the first n events
RECURSIVE CountCalls(_, _, _)
CountCalls(ev, name, n) ==
    IF n = 0 THEN 0
    ELSE CountCalls(ev, name, n - 1) + (IF ev[n][1] = name THEN 1 ELSE 0)

\* the positions of the calls of the given name
CallsOf(ev, name) == {n \in 1..Len(ev) : ev[n][1] = name}

\* C13: when trimLength is below 1 or above 40, main exits with an error
\* before the input file is opened, before the mapping store is opened or
\* created and before anything is written; the range check runs once per
\* run, not once per record.
TrimRangeIsCheckedFirst ==
    /\ CountCalls(events, "trim check", Len(events)) <= 1
    /\ (pc # "main" => events # <<>> /\ events[1][1] = "trim check")
    /\ (trimLength < 1 \/ trimLength > 40) =>
          /\ pc \in {"main", "exited"}
          /\ (pc = "exited" => err # "" /\ events = << <<"trim check", FALSE>> >>)
          /\ (pc = "main" => events = <<>>)
          /\ out = <<>>
          /\ storeCalls = <<>>
          /\ ~ms.open
          /\ (run = "encode" => disk = NoDisk)

\* C13 witness: an encode run with -trim 41 on an input of two records has
\* exited
TrimTooLongHasExited ==
    /\ run = "encode"
    /\ trimLength = 41
    /\ fasta = <<">a", "AC", "> b ">>
    /\ pc = "exited"
    /\ err # ""

\* the run has opened its mapping store
StoreWasOpened == \E n \in 1..Len(events) : events[n] = <<"NewMappingStore", TRUE>>

\* C14: in every run in which NewMappingStore succeeded, Close is called on
\* the store before the process exits, on the success path and on every
\* failure path of encodeMode and decodeMode.
StoreIsClosedBeforeExit ==
    (pc = "exited" /\ StoreWasOpened) => CallsOf(events, "Close") # {}

\* C15: in every successful encode run, Finalise is called on the store
\* exactly once, after the last StorePair and before Close.
SuccessfulEncodeFinalisesOnce ==
    (run = "encode" /\ pc = "exited" /\ err = "" /\ StoreWasOpened) =>
        \E f \in 1..Len(events) :
           /\ CallsOf(events, "Finalise") = {f}
           /\ \A n \in CallsOf(events, "StorePair") : n < f
           /\ \A n \in CallsOf(events, "Close") : f < n
           /\ CallsOf(events, "Close") # {}

\* C16: if writing to the output stream fails during decode, at a line write
\* or at the final flush of the buffered writer, decodeMode writes no further
\* line and returns a non-nil error to its caller.
DecodeWriteFailureIsReturned ==
    \A n \in 1..Len(events) :
       (run = "decode" /\ pc \in {"dec_return", "exited"}
        /\ events[n][1] \in {"Fprintln", "Flush"} /\ ~events[n][2]) =>
           /\ err # ""
           /\ \A m \in CallsOf(events, "Fprintln") : m <= n

---------------------------------------------------------------------------
(* The mapping store on its own: a caller that opens a store and then      *)
(* calls its methods in any order.                                         *)

\* the calls one caller makes
MaxApiCalls == 4

\* the stores of src/mapping_store.go
ApiStores == {"sqlite_tx", "badger"}

\* the identifiers the caller stores and looks up
ApiIDs == {"1_PW_ab", "2_PW_cd"}

\* what is at the store location before the caller opens it: nothing, or a
\* store with one mapping
ApiDisks(kind) ==
    {NoDisk, [exists |-> TRUE, tables |-> (RowTable(kind) :> ("1_PW_ab" :> "seq1"))]}

InitStore ==
    /\ prog = "A"
    /\ storeKind \in ApiStores
    /\ trimLength = 40
    /\ csvMode = FALSE
    /\ disk \in ApiDisks(storeKind)
    /\ ms = NoHandle
    /\ run = "store"
    /\ fasta = <<>>
    /\ input = <<>>
    /\ pc = "api"
    /\ outBroken = FALSE
    /\ FreshRun
    /\ PoolIdle

\* the variables a call of a store method leaves alone
apiFrame ==
    <<cfgVars, run, fasta, input, pos, pc, firstLine, currentHeader,
      currentSequence, index, out, err, storeCalls, outBroken, poolVars>>

\* NewMappingStore(location, readOnly)
ApiOpen ==
    /\ pc = "api"
    /\ Len(events) < MaxApiCalls
    /\ ~StoreWasOpened
    /\ \E readOnly \in BOOLEAN :
          LET r == NewMappingStore(storeKind, readOnly, disk) IN
          /\ ms' = r[2]
          /\ disk' = r[3]
          /\ events' = Append(events, <<"NewMappingStore", r[1]>>)
    /\ UNCHANGED apiFrame

\* ms.StorePair(newID, originalHeader)
ApiStorePair ==
    /\ pc = "api"
    /\ Len(events) < MaxApiCalls
    /\ StoreWasOpened
    /\ \E newID \in ApiIDs :
          LET r == StorePair(storeKind, ms, disk, newID, "h") IN
          /\ ms' = r[2]
          /\ disk' = r[3]
          /\ events' = Append(events, <<"StorePair", r[1]>>)
    /\ UNCHANGED apiFrame

\* ms.LookupOriginalID(processedID); on a closed store the query fails
ApiLookup ==
    /\ pc = "api"
    /\ Len(events) < MaxApiCalls
    /\ StoreWasOpened
    /\ \E processedID \in ApiIDs :
          events' = Append(events,
                           <<"LookupOriginalID",
                             ms.open /\ LookupOriginalID(storeKind, disk, processedID)[1]>>)
    /\ UNCHANGED <<storeVars, apiFrame>>

\* ms.Finalise()
ApiFinalise ==
    /\ pc = "api"
    /\ Len(events) < MaxApiCalls
    /\ StoreWasOpened
    /\ \E r \in FinaliseOutcomes(storeKind, ms, disk) :
          /\ ms' = r[2]
          /\ disk' = r[3]
          /\ events' = Append(events, <<"Finalise", r[1]>>)
    /\ UNCHANGED apiFrame

\* ms.Close()
ApiClose ==
    /\ pc = "api"
    /\ Len(events) < MaxApiCalls
    /\ StoreWasOpened
    /\ disk' \in CloseOutcomes(storeKind, ms, disk)
    /\ ms' = CloseHandle(ms)
    /\ events' = Append(events, <<"Close", TRUE>>)
    /\ UNCHANGED apiFrame

StoreNext ==
    \/ ApiOpen
    \/ ApiStorePair
    \/ ApiLookup
    \/ ApiFinalise
    \/ ApiClose

StoreSpec == InitStore /\ [][StoreNext]_vars

\* this step is a call of the named method
Calls(name) ==
    /\ Len(events') = Len(events) + 1
    /\ events'[Len(events')][1] = name

\* the call this step makes has returned no error
ReturnsNil == events'[Len(events')][2]

\* C17: StorePair called on a store that was opened read-only returns an
\* error and leaves the store contents unchanged.
ReadOnlyStorePairFails ==
    [][(Calls("StorePair") /\ ms.readOnly) =>
          (~ReturnsNil /\ disk' = disk /\ ms' = ms)]_vars

\* C17 witness: StorePair has been called on a store with one mapping that
\* was opened read-only
StorePairOnReadOnlyStore ==
    /\ storeKind = "sqlite_tx"
    /\ ms.open /\ ms.readOnly
    /\ events = << <<"NewMappingStore", TRUE>>, <<"StorePair", FALSE>> >>
    /\ disk.tables["mappings"] = ("1_PW_ab" :> "seq1")

\* a Finalise has returned no error before this step
FinalisedBefore == \E n \in CallsOf(events, "Finalise") : events[n][2]

---------------------------------------------------------------------------
(* Every run of the program: the sequential encode and decode runs and the *)
(* worker-pool decode.                                                     *)

ProgramInit == Init \/ InitPool

ProgramNext == Next \/ PoolNext

ProgramSpec == ProgramInit /\ [][ProgramNext]_vars

\* C20: during any decode run the store contents never change: decodeMode
\* and the workers call only LookupOriginalID, and LookupOriginalID leaves
\* every mapping unchanged whether it hits or misses, for any number of
\* concurrent callers.
DecodeNeverChangesStore ==
    [][run = "decode" =>
          /\ disk' = disk
          /\ storeCalls' = storeCalls
          /\ ~Calls("StorePair")
          /\ ~Calls("Finalise")]_vars

\* C20 witness: two workers have rewritten a line each at the same time, one
\* with a lookup that hit and one with a lookup that missed
TwoWorkersLookedUp ==
    /\ prog = "pool"
    /\ run = "decode"
    /\ numWorkers = 2
    /\ wpc = <<"send", "send">>
    /\ wjob[1].line = "seqA"
    /\ wjob[2].line = "x 7___ff"
    /\ disk.tables["mappings"] = PoolRows

---------------------------------------------------------------------------
(* Further properties of the store and of the encode run.                  *)

\* the mappings the store at the location holds
StoredRows(kind, d) ==
    IF RowTable(kind) \in DOMAIN d.tables THEN d.tables[RowTable(kind)] ELSE EmptyMap

\* C21: immediately after NewMappingStore opens a store in write mode, the
\* store holds no mapping, also when a store written by an earlier encode run
\* already exists at the same location.
WriteOpenStartsEmpty ==
    (events = << <<"NewMappingStore", TRUE>> >> /\ ~ms.readOnly) =>
        (StoredRows(storeKind, disk) = EmptyMap /\ ms.pending = EmptyMap)

\* C22: if StorePair fails for a record, processSequence does not write that
\* record to the output and encodeMode returns the error without processing
\* any later record or calling StorePair again.
StorePairFailureStopsEncode ==
    run = "encode" =>
       /\ Len(out) = 2 * Cardinality({n \in CallsOf(events, "Fprintf") : events[n][2]})
       /\ \A n \in CallsOf(events, "StorePair") :
             ~events[n][2] =>
                /\ \A m \in (n + 1)..Len(events) :
                      events[m][1] \notin {"StorePair", "Fprintf", "Finalise"}
                /\ err # ""
                /\ pc \in {"enc_return", "exited"}

\* C22 witness: the StorePair of the first of two records has failed and the
\* run has ended
StorePairFailedOnFirstOfTwo ==
    /\ prog = "A"
    /\ storeKind = "sqlite_plain"
    /\ fasta = <<">a", "AC", "> b ">>
    /\ pc = "exited"
    /\ err # ""
    /\ out = <<>>
    /\ Len(storeCalls) = 1 /\ ~storeCalls[1][3]

---------------------------------------------------------------------------
(* The parser of encodeMode as a function of the lines of the input: the   *)
(* records <<header, sequence>> it hands to processSequence.               *)

\* encodeMode: the main loop from line i on, and the record in progress
\* after it
RECURSIVE ParseFrom(_, _, _, _, _, _)
ParseFrom(p, first, lines, i, header, sequence) ==
    IF i > Len(lines)
    THEN IF header # "" THEN << <<header, sequence>> >> ELSE <<>>
    ELSE LET line == IF p = "B" THEN TrimSpace(lines[i]) ELSE lines[i] IN
         IF p = "B" /\ SkipsLine(line, first)
         THEN ParseFrom(p, first, lines, i + 1, header, sequence)
         ELSE IF HasPrefix(line, ">")
         THEN (IF header # "" THEN << <<header, sequence>> >> ELSE <<>>)
              \o ParseFrom(p, first, lines, i + 1, SliceFrom(line, 1), "")
         ELSE ParseFrom(p, first, lines, i + 1, header, sequence \o line)

\* encodeMode (B): the position at which the first-line loop stops, past the
\* end when no line is significant
RECURSIVE FirstLineAt(_, _)
FirstLineAt(lines, i) ==
    IF i > Len(lines) THEN i
    ELSE LET t == TrimSpace(lines[i]) IN
         IF t # "" /\ ~HasPrefix(t, "#") /\ ~HasPrefix(t, ";") THEN i
         ELSE FirstLineAt(lines, i + 1)

\* the records encodeMode makes of an input it accepts; none when it
\* rejects the input
ParsedRecords(p, lines) ==
    IF p = "B"
    THEN LET f == FirstLineAt(lines, 1) IN
         IF f > Len(lines) \/ ~HasPrefix(TrimSpace(lines[f]), ">") THEN <<>>
         ELSE ParseFrom(p, TrimSpace(lines[f]), lines, f + 1,
                        SliceFrom(TrimSpace(lines[f]), 1), "")
    ELSE ParseFrom(p, "", lines, 1, "", "")

\* the records the encode run has written: header, sequence and identifier
WrittenRecords ==
    [k \in 1..Len(storeCalls) |-> <<storeCalls[k][2], out[2 * k], storeCalls[k][1]>>]

\* the records with the identifiers processSequence gives them in order
WithIdentifiers(p, recs, trim) ==
    [k \in 1..Len(recs) |-> <<recs[k][1], recs[k][2], NewID(p, recs[k][2], k - 1, trim)>>]

\* C23: the parser in encodeMode treats blank lines and lines starting with
\* # or ; as invisible: encoding a stream gives the same records (headers,
\* sequences, indexes) as encoding the same stream with all such lines
\* removed, and every other non-header line is appended to the current
\* sequence.
BlankAndCommentLinesAreInvisible ==
    (EncodeDone /\ err = "") =>
       /\ WrittenRecords
            = WithIdentifiers(prog, ParsedRecords(prog, Significant(fasta)), trimLength)
       /\ (Significant(fasta) = fasta /\ ValidFasta(fasta)) =>
             \A k \in 1..Len(WrittenRecords) :
                \E j \in 1..Len(HeaderPositions(fasta)) :
                   WrittenRecords[k][2] = SequenceOf(fasta, j)

---------------------------------------------------------------------------
(* Further properties of the decode runs.                                  *)

\* the line s from position from on, with the matched spans ix[i], ix[i+1],
\* ... each replaced by the value of exactly that span
RECURSIVE ReplaceSpansFrom(_, _, _, _, _, _, _)
ReplaceSpansFrom(kind, d, csv, s, ix, i, from) ==
    IF i > Len(ix) THEN SubSeq(s, from, Len(s))
    ELSE SubSeq(s, from, ix[i][1] - 1)
         \o SpanValue(kind, d, csv, SubSeq(s, ix[i][1], ix[i][2]))
         \o ReplaceSpansFrom(kind, d, csv, s, ix, i + 1, ix[i][2] + 1)

ReplaceSpans(sep, kind, d, csv, s) ==
    ReplaceSpansFrom(kind, d, csv, s, FindAllIndexFrom(sep, s, 1), 1, 1)

\* C24: in decodeMode the output line equals the input line with each
\* matched span replaced by the lookup result of exactly that span (or kept
\* on a miss) and every byte outside the matched spans unchanged: a
\* substituted header is never itself rewritten, and a token that is a
\* substring of a longer matched token does not alter the longer one.
EachSpanIsReplacedOnItsOwn ==
    run = "decode" =>
       \A n \in 1..Len(out) :
          out[n] = ReplaceSpans(Separator(prog), storeKind, disk, csvMode, input[n])

\* the LookupOriginalID calls made for token tok of line n
LookupsFor(ev, tok, n) ==
    {m \in CallsOf(ev, "LookupOriginalID") : ev[m][3] = tok /\ ev[m][4] = n}

\* C25: in decodeMode the store is looked up at most once per distinct token
\* string per input line: a token string that occurs k >= 2 times in one
\* line causes exactly one LookupOriginalID call for that line.
OneLookupPerDistinctToken ==
    run = "decode" =>
       \A n \in 1..Len(out) :
          LET toks == FindAllString(Separator(prog), input[n]) IN
          \A i \in 1..Len(toks) : Cardinality(LookupsFor(events, toks[i], n)) = 1

---------------------------------------------------------------------------
(* Further properties of the worker-pool decode.                           *)

\* the process has ended: main has exited or a goroutine has panicked
ProcessEnded == mpc \in {"exited", "panicked"}

\* C30: in worker-pool decode, when a write to the output fails or reading
\* the input fails, the jobs channel has been closed, every worker has
\* stopped and the store has been closed before the process exits with the
\* error.
FailedPoolDecodeCleansUp ==
    (prog = "pool" /\ mpc = "exited" /\ err # "") =>
       /\ jobsClosed
       /\ \A w \in Workers : wpc[w] = "done"
       /\ ~ms.open

\* the elements of a sequence
Range(q) == {q[i] : i \in 1..Len(q)}

\* the sequence numbers of the jobs and results in a channel
LineNums(q) == {q[i].lineNum : i \in 1..Len(q)}

\* the sequence numbers of the jobs the workers hold: taken and rewritten,
\* the result not sent yet
HeldByWorkers == {wjob[w].lineNum : w \in {v \in Workers : wpc[v] = "send"}}

\* the sequence numbers of the results the reassembler has received
Received == DOMAIN resultCache \cup Range(written)

\* the sequence numbers of the results sent so far
Sent == LineNums(results) \cup Received

\* from the dispatcher to the results channel no line is lost and none is
\* there twice: each sequence number given out so far is in one place
NothingLostOrDuplicated ==
    /\ \A i \in 1..Len(jobs) : jobs[i].line = input[jobs[i].lineNum + 1]
    /\ LineNums(jobs) \cup HeldByWorkers \cup Sent = 0..(lineNum - 1)
    /\ Len(jobs) + Cardinality(HeldByWorkers) + Len(results) + jobsProcessed = lineNum
    /\ Cardinality(Received) = jobsProcessed

\* C26: in worker-pool decode, the dispatcher gives the k-th input line
\* sequence number k, each job is taken by exactly one worker, and exactly
\* one result with the same sequence number is sent for each job: no line is
\* dropped or duplicated between the dispatcher and the results channel, in
\* any interleaving.
EveryJobGetsOneResult ==
    prog = "pool" =>
       /\ NothingLostOrDuplicated
       /\ (ProcessEnded /\ err = "") => Sent = 0..(lineNum - 1)

\* the dispatcher waits on its send to the full jobs channel
DispatcherBlocked == dpc = "scan" /\ lineNum < Len(input) /\ Len(jobs) = numWorkers

\* worker w waits on its send to the full results channel
BlockedOnSend(w) == wpc[w] = "send" /\ ~resultsClosed /\ Len(results) = numWorkers

\* worker w waits on its receive from the empty, open jobs channel
BlockedOnReceive(w) == wpc[w] = "recv" /\ jobs = <<>> /\ ~jobsClosed

\* the reassembler waits on its receive from the empty results channel
ReassemblerBlocked == mpc = "recv" /\ results = <<>>

\* the process is alive and every goroutine is blocked or has returned
AllAsleep ==
    /\ Alive
    /\ ReassemblerBlocked
    /\ DispatcherBlocked \/ dpc = "done"
    /\ \A w \in Workers : BlockedOnSend(w) \/ BlockedOnReceive(w) \/ wpc[w] = "done"

\* C27: in worker-pool decode, every worker eventually leaves its loop after
\* the jobs channel has been closed and drained: in no interleaving does a
\* worker stay blocked forever on a send to the results channel, and the
\* dispatcher never stays blocked forever on a send to the jobs channel.
\* As a property of states: when every goroutine of the live process is
\* asleep, the dispatcher has closed the jobs channel and every worker has
\* left its loop; and no worker is left with a result to send on a results
\* channel that is closed, a send that cannot complete and ends the worker
\* by a panic inside its loop.
WorkersLeaveTheirLoops ==
    prog = "pool" =>
       /\ AllAsleep => (dpc = "done" /\ \A w \in Workers : wpc[w] = "done")
       /\ \A w \in Workers : ~(wpc[w] = "send" /\ resultsClosed)

\* C28: in the reassembler, after each drain step the reorder buffer
\* (resultCache) contains only sequence numbers strictly greater than
\* nextLineToWrite, never an entry below it, and every sequence number below
\* nextLineToWrite has been written to the output exactly once.
BufferHoldsOnlyLaterLines ==
    (prog = "pool" /\ ~(mpc = "exited" /\ err # "")) =>
       /\ \A k \in DOMAIN resultCache : k > nextLineToWrite
       /\ written = [i \in 1..nextLineToWrite |-> i - 1]
       /\ Len(out) = nextLineToWrite

\* C28 witness: after two drain steps lines 1 and 2 wait in the buffer for
\* line 0
TwoLinesWaitForTheFirst ==
    /\ prog = "pool"
    /\ numWorkers = 2
    /\ DOMAIN resultCache = {1, 2}
    /\ nextLineToWrite = 0
    /\ jobsProcessed = 2
    /\ mpc = "recv"

---------------------------------------------------------------------------
(* The worker-pool decode of a longer input, for the size of the reorder   *)
(* buffer: two workers, every line the same.                               *)

\* the lines of the longer input
MaxBufferLines == 8

\* decodeMode has made the channels and started the goroutines
InitBuffer ==
    /\ prog = "pool"
    /\ storeKind = "sqlite_tx"
    /\ trimLength = 40
    /\ csvMode = FALSE
    /\ disk = [exists |-> TRUE, tables |-> ("mappings" :> PoolRows)]
    /\ ms = [NoHandle EXCEPT !.open = TRUE, !.readOnly = TRUE]
    /\ run = "decode"
    /\ fasta = <<>>
    /\ input = [i \in 1..MaxBufferLines |-> "x 7___ff"]
    /\ pc = "pool"
    /\ outBroken \in BOOLEAN
    /\ FreshRun
    /\ numWorkers = 2
    /\ jobs = <<>>
    /\ jobsClosed = FALSE
    /\ results = <<>>
    /\ resultsClosed = FALSE
    /\ dpc = "scan"
    /\ lineNum = 0
    /\ wpc = [w \in Workers |-> "recv"]
    /\ wjob = [w \in Workers |-> [lineNum |-> 0, line |-> ""]]
    /\ resultCache = EmptyMap
    /\ nextLineToWrite = 0
    /\ jobsProcessed = 0
    /\ totalJobs = 0
    /\ mpc = "recv"
    /\ written = <<>>

BufferSpec == InitBuffer /\ [][PoolNext]_vars

\* the results that can be on their way at one moment: one with each
\* worker and as many as the two channels hold
InFlight(n) == 3 * n

\* C29: in worker-pool decode with N workers and jobs and results channels
\* of capacity N, the number of entries held in the reorder buffer never
\* exceeds a bound that depends only on N, whatever the number of input
\* lines and whatever the schedule.
BufferIsBoundedByWorkers ==
    (prog = "pool" /\ ~(mpc = "exited" /\ err # "")) =>
        Cardinality(DOMAIN resultCache) <= InFlight(numWorkers)

---------------------------------------------------------------------------
(* Further properties of the encode run.                                   *)

\* C31: at end of input, encodeMode emits the record opened by the last >
\* line as the final record, also when its sequence is empty and also when
\* its header text is empty (the line is exactly >); a record with an empty
\* header is emitted like any other and still consumes an index.
LastHeaderLineGivesFinalRecord ==
    (EncodeDone /\ err = "" /\ ValidFasta(fasta)) =>
       LET hdr == HeaderLines(Significant(fasta)) IN
       /\ Len(storeCalls) = Len(hdr)
       /\ Len(out) = 2 * Len(hdr)
       /\ storeCalls[Len(storeCalls)][2]
            \in {SliceFrom(hdr[Len(hdr)], 1), SliceFrom(TrimSpace(hdr[Len(hdr)]), 1)}

\* C35: at every point of an encode run every identifier already written to
\* the output has had a successful StorePair call before it: the k-th record
\* written is the k-th record stored, at most one record is stored and not
\* (yet) written, each Fprintf of a record comes directly after the
\* successful StorePair of that record, and a successful StorePair is
\* followed by the Fprintf of its record before anything is done for the
\* next record.
StoreWriteComesBeforeOutputWrite ==
    run = "encode" =>
       /\ Len(out) % 2 = 0
       /\ Len(out) \div 2 <= Len(storeCalls)
       /\ Len(storeCalls) <= (Len(out) \div 2) + 1
       /\ \A k \in 1..(Len(out) \div 2) :
             /\ k <= Len(storeCalls)
             /\ storeCalls[k][3]
             /\ out[2 * k - 1] = ">" \o storeCalls[k][1]
       /\ \A m \in CallsOf(events, "Fprintf") :
             m > 1 /\ events[m - 1] = <<"StorePair", TRUE>>
       /\ \A m \in CallsOf(events, "StorePair") :
             (events[m][2] /\ m < Len(events)) => events[m + 1][1] = "Fprintf"

\* two records have been stored and written, in that order
TwoRecordsStoredThenWritten ==
    /\ run = "encode"
    /\ Len(out) = 4
    /\ Len(storeCalls) = 2
    /\ CallsOf(events, "Fprintf") # {}
    /\ \A c \in 1..2 : storeCalls[c][3]

---------------------------------------------------------------------------
(* The mapping-file version: the build that keeps the mappings in a Go map *)
(* during encode, writes them to a text file at the end and loads the file *)
(* before decode.  ms.pending is the map in memory, disk.lines the lines   *)
(* of the mapping file.                                                    *)

\* longest FASTA input of an encode run of the mapping-file version, in lines
MaxMapLines == 3

\* the lines an input of the mapping-file version is made of
MapFileLines == {">a", ">a\tb", ">c d", "AC"}

\* strings.Split(s, sep) for a non-empty sep
RECURSIVE Split(_, _)
Split(s, sep) ==
    LET i == IndexFrom(s, sep, 1) IN
    IF i = 0 THEN <<s>>
    ELSE <<SubSeq(s, 1, i - 1)>> \o Split(SliceFrom(s, i + Len(sep) - 1), sep)

\* newHeader[1:] of processSequence: fmt.Sprintf(">%d_%s", index+1, trimmedHash)
\* without its first character
FileNewID(sequence, idx, trim) ==
    Itoa(idx + 1) \o "_" \o SubSeq(Sha1Hex(sequence), 1, trim)

\* the line writeMappingFile prints for one mapping: "%s\t%s\n"
MappingLine(newID, originalID) == newID \o "\t" \o originalID

\* the lines writeMappingFile writes when its range visits the keys of the
\* mapping in the given order
writeMappingFile(mapping, order) ==
    [n \in 1..Len(order) |-> MappingLine(order[n], mapping[order[n]])]

\* loadMappingFile: every line is split at the tabs; a line of exactly two
\* parts sets mapping[parts[0]] = parts[1], any other line is passed over
RECURSIVE loadMappingFile(_)
loadMappingFile(lines) ==
    IF lines = <<>> THEN EmptyMap
    ELSE LET before == loadMappingFile(SubSeq(lines, 1, Len(lines) - 1))
             parts  == Split(lines[Len(lines)], "\t")
         IN IF Len(parts) = 2 THEN Put(before, parts[1], parts[2]) ELSE before

\* main is about to encode a FASTA input with the mapping-file version
InitMapFile ==
    /\ prog = "file"
    /\ storeKind = "file"
    /\ trimLength \in {7, 40}
    /\ csvMode = FALSE
    /\ disk = [exists |-> FALSE, lines |-> <<>>]
    /\ ms = NoHandle
    /\ run = "encode"
    /\ fasta \in SeqUpTo(MapFileLines, MaxMapLines)
    /\ input = fasta
    /\ pc = "file_loop"
    /\ outBroken = FALSE
    /\ FreshRun
    /\ PoolIdle

\* the variables no step of the mapping-file version changes
fileFrame == <<cfgVars, run, fasta, input, firstLine, err, events, outBroken, poolVars>>

\* processSequence of the mapping-file version: the mapping is put into the
\* map, then the record is written
FileProcessSequence(header, sequence, idx) ==
    LET newID == FileNewID(sequence, idx, trimLength) IN
    /\ ms' = [ms EXCEPT !.pending = Put(ms.pending, newID, header)]
    /\ storeCalls' = Append(storeCalls, <<newID, header, TRUE>>)
    /\ out' = out \o <<">" \o newID, sequence>>

\* one turn of the scanner loop of encodeMode
FileEncLine ==
    /\ pc = "file_loop"
    /\ pos <= Len(input)
    /\ LET line == input[pos] IN
       IF HasPrefix(line, ">")
       THEN /\ IF currentHeader # ""
               THEN /\ FileProcessSequence(currentHeader, currentSequence, index)
                    /\ index' = index + 1
               ELSE UNCHANGED <<ms, storeCalls, out, index>>
            /\ currentHeader' = SliceFrom(line, 1)
            /\ currentSequence' = ""
       ELSE /\ currentSequence' = currentSequence \o line
            /\ UNCHANGED <<ms, storeCalls, out, index, currentHeader>>
    /\ pos' = pos + 1
    /\ UNCHANGED <<fileFrame, disk, pc>>

\* the end of the input: the last record, then writeMappingFile
FileEncEnd ==
    /\ pc = "file_loop"
    /\ pos > Len(input)
    /\ IF currentHeader # ""
       THEN FileProcessSequence(currentHeader, currentSequence, index)
       ELSE UNCHANGED <<ms, storeCalls, out>>
    /\ \E order \in Perms(DOMAIN ms'.pending) :
          disk' = [exists |-> TRUE, lines |-> writeMappingFile(ms'.pending, order)]
    /\ pc' = "file_written"
    /\ UNCHANGED <<fileFrame, pos, currentHeader, currentSequence, index>>

\* the start of decodeMode: mapping := loadMappingFile(mappingFile)
FileLoad ==
    /\ pc = "file_written"
    /\ ms' = [NoHandle EXCEPT !.pending = loadMappingFile(disk.lines)]
    /\ pc' = "file_loaded"
    /\ UNCHANGED <<fileFrame, disk, pos, currentHeader, currentSequence, index,
                   out, storeCalls>>

MapFileNext == FileEncLine \/ FileEncEnd \/ FileLoad

MapFileSpec == InitMapFile /\ [][MapFileNext]_vars

\* C32: in the mapping-file version every mapping that writeMappingFile wrote
\* during encode is read back by loadMappingFile with the same key and the
\* same value, whatever the original header is, a header with a tab included.
MappingFileRoundTrip ==
    pc = "file_loaded" =>
       \A n \in 1..Len(storeCalls) :
          /\ storeCalls[n][1] \in DOMAIN ms.pending
          /\ ms.pending[storeCalls[n][1]] = storeCalls[n][2]

---------------------------------------------------------------------------
(* Further properties of the worker pool.                                  *)

\* C33: in worker-pool decode no worker ever sends on the results channel
\* after main has closed it: in the step that executes close(results) every
\* dispatched job has had its result received, no job is left in the jobs
\* channel or inside a worker, and so no send on the closed channel (a panic)
\* ever happens, in any interleaving.
CloseResultsComesLast ==
    /\ [][(prog = "pool" /\ ~resultsClosed /\ resultsClosed') =>
             /\ jobs = <<>>
             /\ HeldByWorkers = {}
             /\ results = <<>>
             /\ Received = 0..(lineNum - 1)]_vars
    /\ [](prog = "pool" => mpc # "panicked")

---------------------------------------------------------------------------
(* Further properties of the decode run.                                   *)

\* C34: decodeMode is deterministic: for the same input line, the same store
\* contents and the same csv flag it writes the same output line on every
\* run, whatever the order in which the range over the replacements map of
\* the line visits its keys.  Every line a run has written is the only line
\* a run can write for that input line.
DecodeOutputIsDetermined ==
    run = "decode" =>
       \A n \in 1..Len(out) :
          RewriteLine(Separator(prog), storeKind, disk, csvMode, input[n]) = {out[n]}

---------------------------------------------------------------------------
(* Further properties of the mapping store.                                *)

\* C36: with the transactional SQLite store the mappings stored by StorePair
\* are visible to a later read-only open if and only if Finalise committed
\* them before Close: a successful Finalise puts every mapping of the
\* transaction into the table, the table of a store opened for writing holds
\* a mapping only after a successful Finalise, a Close without a successful
\* Finalise before it leaves the table as it was (every mapping of the run
\* is rolled back), and StorePair after a successful Finalise returns an
\* error.
TxMappingsVisibleIffCommitted ==
    /\ [][(storeKind = "sqlite_tx" /\ Calls("Finalise") /\ ReturnsNil /\ ms.tx) =>
             disk' = [disk EXCEPT !.tables =
                         Put(@, "mappings", Merge(disk.tables["mappings"], ms.pending))]]_vars
    /\ [][(storeKind = "sqlite_tx" /\ Calls("Close") /\ ~FinalisedBefore) =>
             disk' = disk]_vars
    /\ [][(storeKind = "sqlite_tx" /\ Calls("StorePair") /\ FinalisedBefore) =>
             (~ReturnsNil /\ disk' = disk)]_vars
    /\ [](( /\ storeKind = "sqlite_tx"
            /\ StoreWasOpened
            /\ ~ms.readOnly
            /\ StoredRows(storeKind, disk) # EmptyMap) => FinalisedBefore)

\* the mappings a SQLite store holds for the handle that wrote them: the rows
\* of the table and the rows inserted in the open transaction
KnownMappings(kind, h, d) == Merge(StoredRows(kind, d), h.pending)

\* C37: in the SQLite stores StorePair with an identifier that is already
\* stored returns an error and leaves the existing mapping unchanged:
\* duplicate keys are rejected, never overwritten.  A StorePair that returns
\* no error has added a key that was not there, a StorePair that returns an
\* error has changed nothing, and in no step of the run does a key that
\* stays in the store change its value.
DuplicateKeysAreRejected ==
    [][(storeKind \in {"sqlite_tx", "sqlite_plain"}) =>
         (LET before == KnownMappings(storeKind, ms, disk)
              after  == KnownMappings(storeKind, ms', disk')
          IN  /\ (Calls("StorePair") /\ ReturnsNil) =>
                    /\ Cardinality(DOMAIN after) = Cardinality(DOMAIN before) + 1
                    /\ DOMAIN before \subseteq DOMAIN after
              /\ (Calls("StorePair") /\ ~ReturnsNil) => (disk' = disk /\ ms' = ms)
              /\ StoreWasOpened =>
                    \A id \in DOMAIN before \cap DOMAIN after : after[id] = before[id])
      ]_vars

\* C37 witness: on a store opened for writing, a second StorePair with the
\* identifier of the first has returned an error and the mapping of the first
\* is still there
DuplicateStorePairRefused ==
    /\ storeKind = "sqlite_tx"
    /\ events = << <<"NewMappingStore", TRUE>>, <<"StorePair", TRUE>>,
                   <<"StorePair", FALSE>> >>
    /\ ms.open /\ ms.stmt /\ ~ms.txDone
    /\ Cardinality(DOMAIN ms.pending) = 1

=============================================================================
